---------------------------- MODULE Spec2Model ----------------------------
(***************************************************************************)
(* The processed-file registry of the llama-stack UI: the list page        *)
(* (app/logs/files/page.tsx, FilesPage) with its load and save effects and *)
(* its upload handler, the detail page (FileDetailPage) that resolves one  *)
(* record by id, and the localStorage slot the two pages share.            *)
(*                                                                         *)
(* React is modelled at the grain the code depends on: a state update and  *)
(* the render it causes are one step, the passive effects of a commit are  *)
(* a later step that runs before the next render, and an effect reads the  *)
(* values of the render that scheduled it.                                 *)
(***************************************************************************)
EXTENDS Naturals, Sequences, FiniteSets, TLC

VARIABLES
    localStorage,    \* the slot STORAGE_KEY: [present, text]
    page,            \* the mounted route: "list", "detail" or "error"
    files,           \* FilesPage state: useState<ProcessedFile[]>([])
    isLoading,       \* FilesPage state: useState(true)
    isUploading,     \* FilesPage state: useState(false)
    selectedFile,    \* FilesPage state: useState<File | null>(null)
    pendingEffects,  \* passive effects of the last commit not yet run
    requests,        \* the handleUpload invocations awaiting their response
    dispatched,      \* how many handleUpload invocations passed the guard
    fetched,         \* how many times fetch was called (line 84)
    issued,          \* how many ids crypto.randomUUID() has returned so far
    lastEvent,       \* what the last step showed: its toast, its new record
    saveFailed,      \* the last setItem of the save effect threw
    clock,           \* the wall clock read by new Date()
    fileId,          \* FileDetailPage: params.id
    file,            \* FileDetailPage state: useState<ProcessedFile | null>(null)
    detailLoading,   \* FileDetailPage state: useState(true)
    detailEffect,    \* FileDetailPage: the resolve effect is scheduled
    clickedRow,      \* the record of the row whose click opened the detail page
    detailReads,     \* getItem calls of FileDetailPage since it got its fileId
    other            \* a FilesPage in another tab: [files, pending, issued]

vars == <<localStorage, page, files, isLoading, isUploading, selectedFile,
          pendingEffects, requests, dispatched, issued, lastEvent,
          saveFailed, clock, fileId, file, detailLoading, detailEffect,
          clickedRow, fetched, detailReads, other>>

listVars == <<files, isLoading, isUploading, selectedFile, pendingEffects>>
detailVars == <<fileId, file, detailLoading, detailEffect, clickedRow,
                detailReads>>

---------------------------------------------------------------------------
(* Bounds of the model.                                                    *)

\* records already in the durable slot when the session starts
MaxStored == 1
\* handleUpload invocations that issue a request, over the whole session
MaxUploads == 2

---------------------------------------------------------------------------
(* JavaScript values.  Every value has the same three fields, so that any  *)
(* two values can be compared: t is the type, s the text of a string or a  *)
(* number (or the key of an object member), items the elements of an array *)
(* or the members of an object (each a "prop" holding one value).          *)

JUndefined == [t |-> "undefined", s |-> "", items |-> <<>>]
JNull == [t |-> "null", s |-> "", items |-> <<>>]
JStr(x) == [t |-> "string", s |-> x, items |-> <<>>]
JNum(x) == [t |-> "number", s |-> x, items |-> <<>>]
JArr(xs) == [t |-> "array", s |-> "", items |-> xs]
JProp(k, v) == [t |-> "prop", s |-> k, items |-> <<v>>]
JObj(props) == [t |-> "object", s |-> "", items |-> props]

\* obj[k] (undefined when obj has no own member k)
RECURSIVE GetFrom(_, _, _)
GetFrom(props, k, i) ==
    IF i = 0 THEN JUndefined
    ELSE IF props[i].s = k THEN props[i].items[1]
    ELSE GetFrom(props, k, i - 1)

Get(obj, k) ==
    IF obj.t = "object" THEN GetFrom(obj.items, k, Len(obj.items))
    ELSE JUndefined

\* obj[k] = v on a member list: an existing key keeps its place
SetProp(props, k, v) ==
    IF \E i \in 1..Len(props) : props[i].s = k
    THEN [i \in 1..Len(props) |->
             IF props[i].s = k THEN JProp(k, v) ELSE props[i]]
    ELSE Append(props, JProp(k, v))

\* ToBoolean(v)
Truthy(v) ==
    CASE v.t = "undefined" -> FALSE
      [] v.t = "null" -> FALSE
      [] v.t = "string" -> v.s # ""
      [] v.t = "number" -> v.s # "0"
      [] OTHER -> TRUE

\* `${v}` for the values that reach a template literal here
TemplateString(v) ==
    CASE v.t = "string" -> v.s
      [] v.t = "number" -> v.s
      [] v.t = "null" -> "null"
      [] v.t = "undefined" -> "undefined"
      [] v.t = "array" -> ""
      [] OTHER -> "[object Object]"

---------------------------------------------------------------------------
(* JSON text is a sequence of tokens [k, s]: the punctuation marks, "str"  *)
(* and "num" carrying their text, "null", and "junk" for characters that   *)
(* start no JSON value.                                                    *)

Tok(k) == [k |-> k, s |-> ""]
TokStr(x) == [k |-> "str", s |-> x]
TokNum(x) == [k |-> "num", s |-> x]

RECURSIVE JoinTokens(_, _)
JoinTokens(parts, i) ==
    IF i > Len(parts) THEN <<>>
    ELSE (IF i > 1 THEN <<Tok(",")>> ELSE <<>>) \o parts[i]
         \o JoinTokens(parts, i + 1)

\* JSON.stringify(v) for a v that is not undefined: an undefined array
\* element is written null, an undefined member is left out
RECURSIVE Stringify(_)
Stringify(v) ==
    CASE v.t = "null" -> <<Tok("null")>>
      [] v.t = "string" -> <<TokStr(v.s)>>
      [] v.t = "number" -> <<TokNum(v.s)>>
      [] v.t = "array" ->
            <<Tok("[")>>
            \o JoinTokens([i \in 1..Len(v.items) |->
                   IF v.items[i].t = "undefined" THEN <<Tok("null")>>
                   ELSE Stringify(v.items[i])], 1)
            \o <<Tok("]")>>
      [] v.t = "object" ->
            LET kept == SelectSeq(v.items,
                            LAMBDA p : p.items[1].t # "undefined")
            IN <<Tok("{")>>
               \o JoinTokens([i \in 1..Len(kept) |->
                      <<TokStr(kept[i].s), Tok(":")>>
                      \o Stringify(kept[i].items[1])], 1)
               \o <<Tok("}")>>
      [] OTHER -> <<>>

\* the result of parsing one value at position i: the value and the
\* position after it, or ok = FALSE for a SyntaxError
ParseFail == [ok |-> FALSE, v |-> JUndefined, next |-> 0]
ParseOk(v, n) == [ok |-> TRUE, v |-> v, next |-> n]

RECURSIVE ParseValue(_, _)
RECURSIVE ParseElements(_, _, _)
RECURSIVE ParseMembers(_, _, _)

ParseValue(toks, i) ==
    IF i > Len(toks) THEN ParseFail
    ELSE CASE toks[i].k = "null" -> ParseOk(JNull, i + 1)
           [] toks[i].k = "str" -> ParseOk(JStr(toks[i].s), i + 1)
           [] toks[i].k = "num" -> ParseOk(JNum(toks[i].s), i + 1)
           [] toks[i].k = "[" ->
                 IF i + 1 <= Len(toks) /\ toks[i + 1].k = "]"
                 THEN ParseOk(JArr(<<>>), i + 2)
                 ELSE ParseElements(toks, i + 1, <<>>)
           [] toks[i].k = "{" ->
                 IF i + 1 <= Len(toks) /\ toks[i + 1].k = "}"
                 THEN ParseOk(JObj(<<>>), i + 2)
                 ELSE ParseMembers(toks, i + 1, <<>>)
           [] OTHER -> ParseFail

\* the elements of an array from position i, acc holding those before
ParseElements(toks, i, acc) ==
    LET r == ParseValue(toks, i)
    IN IF ~r.ok \/ r.next > Len(toks) THEN ParseFail
       ELSE CASE toks[r.next].k = "]" ->
                     ParseOk(JArr(Append(acc, r.v)), r.next + 1)
              [] toks[r.next].k = "," ->
                     ParseElements(toks, r.next + 1, Append(acc, r.v))
              [] OTHER -> ParseFail

\* the members of an object from position i, acc holding those before
ParseMembers(toks, i, acc) ==
    IF i + 1 > Len(toks) \/ toks[i].k # "str" \/ toks[i + 1].k # ":"
    THEN ParseFail
    ELSE LET r == ParseValue(toks, i + 2)
         IN IF ~r.ok \/ r.next > Len(toks) THEN ParseFail
            ELSE CASE toks[r.next].k = "}" ->
                          ParseOk(JObj(SetProp(acc, toks[i].s, r.v)),
                                  r.next + 1)
                   [] toks[r.next].k = "," ->
                          ParseMembers(toks, r.next + 1,
                                       SetProp(acc, toks[i].s, r.v))
                   [] OTHER -> ParseFail

\* JSON.parse(text): ok = FALSE when it throws a SyntaxError
JsonParse(text) ==
    LET r == ParseValue(text, 1)
    IN IF r.ok /\ r.next = Len(text) + 1 THEN r ELSE ParseFail


---------------------------------------------------------------------------
(* The data of the program.                                                *)

\* interface ProcessedFile, as the object literal of handleUpload builds it
ProcessedFile(id, filename, content, processedAt) ==
    JObj(<<JProp("id", id), JProp("filename", filename),
           JProp("content", content), JProp("processedAt", processedAt)>>)

\* a File of the file input: the only member the code reads is its name
File(name) == JObj(<<JProp("name", JStr(name))>>)
FileNames == {"report.pdf", "scan.png"}

\* new Date().toISOString() at clock value n
IsoString(n) == JStr("T" \o ToString(n))

\* RandomUUID returning one id at every call
RandomUUIDRepeating(n) == "uuid-1"

\* crypto.randomUUID(): the call number n of the session.  The program
\* only compares ids for equality, so all that matters of a version 4 UUID
\* is that no two calls return the same.
RandomUUID(n) == "uuid-" \o ToString(n)

\* a record written to the slot by an earlier session
StoredRecord(i) ==
    ProcessedFile(JStr("stored-" \o ToString(i)),
                  JStr("old-" \o ToString(i) \o ".pdf"),
                  JStr("# Old"), IsoString(0))

\* a record whose content is empty, which no upload builds
EmptyRecord ==
    ProcessedFile(JStr("stored-empty"), JStr("blank.pdf"), JStr(""),
                  IsoString(0))

\* the i most recent of them, most recent first
RECURSIVE StoredRecords(_)
StoredRecords(i) ==
    IF i = 0 THEN <<>> ELSE <<StoredRecord(i)>> \o StoredRecords(i - 1)

\* localStorage.getItem(STORAGE_KEY) === null
Absent == [present |-> FALSE, text |-> <<>>]
Item(text) == [present |-> TRUE, text |-> text]

\* what the slot can hold when the list page is first opened: nothing, the
\* empty string, text that is not JSON, JSON that is no array, and the
\* arrays an earlier session saved
InitialStorage ==
    {Absent, Item(<<>>), Item(<<Tok("junk")>>),
     Item(Stringify(JNull)), Item(Stringify(JObj(<<>>))),
     Item(Stringify(JNum("5"))), Item(Stringify(JStr("x")))}
    \cup {Item(Stringify(JArr(StoredRecords(i)))) : i \in 0..MaxStored}

\* the bodies the conversion service can answer with
ResponseBodies ==
    {<<Tok("junk")>>,
     Stringify(JNull),
     Stringify(JObj(<<>>)),
     Stringify(JObj(<<JProp("filename", JStr("report.md")),
                      JProp("content", JNull)>>)),
     Stringify(JObj(<<JProp("filename", JStr("report.md")),
                      JProp("content", JStr(""))>>)),
     Stringify(JObj(<<JProp("content", JStr("# Report"))>>)),
     Stringify(JObj(<<JProp("filename", JStr("")),
                      JProp("content", JStr("# Report"))>>)),
     Stringify(JObj(<<JProp("filename", JStr("report.md")),
                      JProp("content", JStr("# Report"))>>))}

\* a call of sonner's toast
NoToast == [kind |-> "none", message |-> ""]
ToastError(m) == [kind |-> "error", message |-> m]
ToastSuccess(m) == [kind |-> "success", message |-> m]

---------------------------------------------------------------------------
(* FilesPage: the pure parts.                                              *)

\* the value of files after the load effect: setFiles(JSON.parse(stored))
\* when the slot holds a non-empty string that parses, else files as it was
LoadedFiles(storage, current) ==
    IF storage.present /\ storage.text # <<>> /\ JsonParse(storage.text).ok
    THEN JsonParse(storage.text).v
    ELSE current

\* SaveGuard with its test of isLoading left out
SaveGuardUnguarded(loading) == TRUE

\* the save effect's condition, on the isLoading of the render it closes over
SaveGuard(loading) == ~loading

\* Saved merging with what the slot holds: the records of the slot that
\* renderedFiles lacks are kept behind it
SavedMerging(storage, renderedFiles, renderedLoading, setItemThrows) ==
    LET old == JsonParse(storage.text)
        kept == IF storage.present /\ old.ok /\ old.v.t = "array"
                   /\ renderedFiles.t = "array"
                THEN SelectSeq(old.v.items,
                         LAMBDA r : \A i \in 1..Len(renderedFiles.items) :
                                       renderedFiles.items[i] # r)
                ELSE <<>>
    IN IF ~renderedLoading /\ ~setItemThrows
       THEN [present |-> TRUE,
             text |-> Stringify([renderedFiles EXCEPT !.items = @ \o kept])]
       ELSE storage

\* Saved writing the initial value of files, not the rendered one
SavedInitialFiles(storage, renderedFiles, renderedLoading, setItemThrows) ==
    IF SaveGuard(renderedLoading) /\ ~setItemThrows
    THEN [present |-> TRUE, text |-> Stringify(JArr(<<>>))]
    ELSE storage

\* the slot after the save effect of a render with these files and
\* isLoading; setItem can throw (the quota), which the effect catches
Saved(storage, renderedFiles, renderedLoading, setItemThrows) ==
    IF SaveGuard(renderedLoading) /\ ~setItemThrows
    THEN Item(Stringify(renderedFiles))
    ELSE storage

\* what React accepts as a child: not a plain object
RECURSIVE ValidChild(_)
ValidChild(v) ==
    /\ v.t # "object"
    /\ v.t = "array" => \A i \in 1..Len(v.items) : ValidChild(v.items[i])

\* renderContent(): the presentation, or "throw" when evaluating it raises
\* (files.length of null, files.map of a non-array, file.id of null, an
\* object as a child)
RenderContent(fs, loading) ==
    IF loading THEN "skeleton"
    ELSE CASE fs.t \in {"null", "undefined"} -> "throw"
           [] fs.t = "string" -> IF fs.s = "" THEN "empty" ELSE "throw"
           [] fs.t = "object" ->
                 IF Get(fs, "length") = JNum("0") THEN "empty" ELSE "throw"
           [] fs.t = "array" ->
                 IF Len(fs.items) = 0 THEN "empty"
                 ELSE IF \A i \in 1..Len(fs.items) :
                            /\ fs.items[i].t # "null"
                            /\ ValidChild(Get(fs.items[i], "filename"))
                      THEN "table"
                      ELSE "throw"
           [] OTHER -> "throw"

\* <Button disabled={!selectedFile || isUploading}>
UploadDisabled(selected, uploading) == ~Truthy(selected) \/ uploading

\* <Input disabled={isUploading}>
InputDisabled(uploading) == uploading

\* whether [newFile, ...prev] can be evaluated
Spreadable(prev) == prev.t = "array" \/ (prev.t = "string" /\ prev.s = "")

\* Prepend with the record put last: [...prev, newFile]
PrependAppending(newFile, prev) ==
    JArr((IF prev.t = "array" THEN prev.items ELSE <<>>) \o <<newFile>>)

\* prev => [newFile, ...prev]
Prepend(newFile, prev) ==
    JArr(<<newFile>> \o (IF prev.t = "array" THEN prev.items ELSE <<>>))

\* Processed naming every record after the selected file: filename is
\* selectedFile.name, whatever result.filename is
ProcessedIgnoringFilename(body, selected, uuid, now) ==
    LET parsed == JsonParse(body)
        result == parsed.v
    IN IF ~parsed.ok
       THEN [ok |-> FALSE, message |-> "Unexpected token", record |-> JUndefined]
       ELSE IF result.t = "null"
       THEN [ok |-> FALSE, message |-> "Cannot read properties of null",
             record |-> JUndefined]
       ELSE IF ~Truthy(Get(result, "content"))
       THEN [ok |-> FALSE, message |-> "API returned no content",
             record |-> JUndefined]
       ELSE [ok |-> TRUE, message |-> "",
             record |-> ProcessedFile(
                 JStr(uuid),
                 Get(selected, "name"),
                 Get(result, "content"),
                 IsoString(now))]

\* Processed without the check of result.content (lines 99 to 101)
ProcessedUnvalidated(body, selected, uuid, now) ==
    LET parsed == JsonParse(body)
        result == parsed.v
    IN IF ~parsed.ok
       THEN [ok |-> FALSE, message |-> "Unexpected token", record |-> JUndefined]
       ELSE IF result.t = "null"
       THEN [ok |-> FALSE, message |-> "Cannot read properties of null",
             record |-> JUndefined]
       ELSE [ok |-> TRUE, message |-> "",
             record |-> ProcessedFile(
                 JStr(uuid),
                 IF Truthy(Get(result, "filename"))
                 THEN Get(result, "filename") ELSE Get(selected, "name"),
                 Get(result, "content"),
                 IsoString(now))]

\* handleUpload from the parsed body on (lines 93 to 117): an error with its
\* message, or the record to store
Processed(body, selected, uuid, now) ==
    LET parsed == JsonParse(body)
        result == parsed.v
    IN IF ~parsed.ok
       THEN [ok |-> FALSE, message |-> "Unexpected token", record |-> JUndefined]
       ELSE IF result.t = "null"
       THEN [ok |-> FALSE, message |-> "Cannot read properties of null",
             record |-> JUndefined]
       ELSE IF ~Truthy(Get(result, "content"))
       THEN [ok |-> FALSE, message |-> "API returned no content",
             record |-> JUndefined]
       ELSE [ok |-> TRUE, message |-> "",
             record |-> ProcessedFile(
                 JStr(uuid),
                 IF Truthy(Get(result, "filename"))
                 THEN Get(result, "filename") ELSE Get(selected, "name"),
                 Get(result, "content"),
                 IsoString(now))]

---------------------------------------------------------------------------
(* FileDetailPage: the pure parts.                                         *)

\* FindById with an assignment for its comparison, find(f => (f.id = fileId)),
\* which is truthy for the first element
FindByIdAssigning(items, id, i) ==
    IF i > Len(items) THEN [threw |-> FALSE, v |-> JUndefined]
    ELSE IF items[i].t = "null" THEN [threw |-> TRUE, v |-> JUndefined]
    ELSE [threw |-> FALSE, v |-> items[i]]

\* files.find(f => f.id === fileId) from element i on: the element found
\* (undefined when none), or threw when f is null
RECURSIVE FindById(_, _, _)
FindById(items, id, i) ==
    IF i > Len(items) THEN [threw |-> FALSE, v |-> JUndefined]
    ELSE IF items[i].t = "null" THEN [threw |-> TRUE, v |-> JUndefined]
    ELSE IF Get(items[i], "id") = JStr(id) THEN [threw |-> FALSE, v |-> items[i]]
    ELSE FindById(items, id, i + 1)

\* the value of file after the resolve effect: setFile(foundFile) when the
\* slot parses to an array holding a record of this id; every throw on the
\* way (JSON.parse, find of a non-array, f.id of null) is caught
Resolved(storage, id, current) ==
    LET parsed == JsonParse(storage.text)
        found == FindById(parsed.v.items, id, 1)
    IN IF /\ storage.present /\ storage.text # <<>>
          /\ parsed.ok /\ parsed.v.t = "array"
          /\ ~found.threw /\ Truthy(found.v)
       THEN found.v
       ELSE current

\* DetailRender taking a record without content for no record:
\* if (!file || !file.content)
DetailRenderContentRequired(f, loading) ==
    IF loading THEN "skeleton"
    ELSE IF ~Truthy(f) \/ ~Truthy(Get(f, "content")) THEN "notFound"
    ELSE IF ~ValidChild(Get(f, "filename")) THEN "throw"
    ELSE "record"

\* what FileDetailPage renders (lines 48 to 123): the skeleton, the
\* not-found presentation, or the record with its markdown or with "No
\* content available"; "throw" when file.filename is no valid child
DetailRender(f, loading) ==
    IF loading THEN "skeleton"
    ELSE IF ~Truthy(f) THEN "notFound"
    ELSE IF ~ValidChild(Get(f, "filename")) THEN "throw"
    ELSE IF Truthy(Get(f, "content")) THEN "record"
    ELSE "recordNoContent"

---------------------------------------------------------------------------
(* The state of a page that is not mounted, and of one just mounted.       *)

NoFiles == JArr(<<>>)

ListUnmounted ==
    /\ files' = NoFiles
    /\ isLoading' = TRUE
    /\ isUploading' = FALSE
    /\ selectedFile' = JNull
    /\ pendingEffects' = {}

\* the first render of FilesPage: both effects are scheduled
ListMounted ==
    /\ files' = NoFiles
    /\ isLoading' = TRUE
    /\ isUploading' = FALSE
    /\ selectedFile' = JNull
    /\ pendingEffects' = {"load", "save"}

DetailUnmounted ==
    /\ fileId' = ""
    /\ file' = JNull
    /\ detailLoading' = TRUE
    /\ detailEffect' = FALSE
    /\ clickedRow' = JUndefined
    /\ detailReads' = 0

\* the uploads of a FilesPage that is unmounted go on, their state updates
\* reaching no component
Orphaned(reqs) == [i \in 1..Len(reqs) |-> [reqs[i] EXCEPT !.orphan = TRUE]]

\* reqs without its element i
Without(reqs, i) == SubSeq(reqs, 1, i - 1) \o SubSeq(reqs, i + 1, Len(reqs))

\* what the service answered: fetch rejected, a status that is not ok, or
\* a success status with a body
NoResponse == [status |-> "none", body |-> <<>>]
Rejected == [status |-> "rejected", body |-> <<>>]
NotOk == [status |-> "notOk", body |-> <<>>]
Ok(body) == [status |-> "ok", body |-> body]

\* what a step showed to the user and to the console: kind is "none",
\* "rejected" (handleUpload returned at its guard), "failed" (its catch
\* block ran) or "succeeded" (it built a record); file, orphan and response
\* are those of the upload concerned
NoEvent ==
    [kind |-> "none", file |-> JNull, orphan |-> FALSE,
     response |-> NoResponse, toast |-> NoToast, record |-> JUndefined]

\* the other tab has not opened the list page
OtherClosed == [files |-> JUndefined, pending |-> FALSE, issued |-> 0]

Init ==
    /\ localStorage \in InitialStorage
    /\ page = "list"
    /\ files = NoFiles
    /\ isLoading = TRUE
    /\ isUploading = FALSE
    /\ selectedFile = JNull
    /\ pendingEffects = {"load", "save"}
    /\ requests = <<>>
    /\ dispatched = 0
    /\ issued = 0
    /\ lastEvent = NoEvent
    /\ saveFailed = FALSE
    /\ clock = 1
    /\ fileId = ""
    /\ file = JNull
    /\ detailLoading = TRUE
    /\ detailEffect = FALSE
    /\ clickedRow = JUndefined
    /\ fetched = 0
    /\ detailReads = 0
    /\ other = OtherClosed

---------------------------------------------------------------------------
(* React: effects and commits of FilesPage.                                *)

\* The passive effects that are scheduled, run in the order of the hooks:
\* the load effect, then the save effect on the files and isLoading of the
\* render that scheduled it.  deps tells that the load effect updated state,
\* saveFailed whether the last setItem so far threw.
Flushed(setItemThrows) ==
    [storage |-> IF "save" \in pendingEffects
                 THEN Saved(localStorage, files, isLoading, setItemThrows)
                 ELSE localStorage,
     files |-> IF "load" \in pendingEffects
               THEN LoadedFiles(localStorage, files) ELSE files,
     isLoading |-> IF "load" \in pendingEffects THEN FALSE ELSE isLoading,
     deps |-> "load" \in pendingEffects,
     saveFailed |-> IF "save" \in pendingEffects /\ SaveGuard(isLoading)
                    THEN setItemThrows ELSE saveFailed]

\* setItem is reached, so that it can throw, only by a scheduled save effect
\* whose guard passes
SetItemOutcomes ==
    IF "save" \in pendingEffects /\ SaveGuard(isLoading)
    THEN BOOLEAN ELSE {FALSE}

\* Commit with the save effect depending on [isLoading] alone
CommitWithoutFilesDep(n) ==
    IF RenderContent(n.files, n.isLoading) = "throw"
    THEN /\ page' = "error"
         /\ ListUnmounted
         /\ requests' = Orphaned(n.requests)
    ELSE /\ page' = "list"
         /\ files' = n.files
         /\ isLoading' = n.isLoading
         /\ isUploading' = n.isUploading
         /\ selectedFile' = n.selectedFile
         /\ pendingEffects' = IF n.isLoading # isLoading THEN {"save"} ELSE {}
         /\ requests' = n.requests

\* The render of FilesPage with the state n and its commit: the save effect
\* is scheduled when files or isLoading changed (n.deps); a render that
\* throws unmounts the page, which the error boundary replaces.
Commit(n) ==
    IF RenderContent(n.files, n.isLoading) = "throw"
    THEN /\ page' = "error"
         /\ ListUnmounted
         /\ requests' = Orphaned(n.requests)
    ELSE /\ page' = "list"
         /\ files' = n.files
         /\ isLoading' = n.isLoading
         /\ isUploading' = n.isUploading
         /\ selectedFile' = n.selectedFile
         /\ pendingEffects' = IF n.deps THEN {"save"} ELSE {}
         /\ requests' = n.requests

\* setFiles(prev => [newFile, ...prev]) applied to prev, where a prev that
\* cannot be spread makes the updater throw during the render; no setFiles
\* was called when newFile is undefined.
FilesUpdate(newFile, prev) ==
    IF newFile = JUndefined THEN prev
    ELSE IF Spreadable(prev) THEN Prepend(newFile, prev)
    ELSE JUndefined

\* The scheduled effects run, then FilesPage renders with these updates.
FlushAndCommit(uploading, selected, newFile, depsChanged, reqs) ==
    \E setItemThrows \in SetItemOutcomes :
       LET f == Flushed(setItemThrows)
       IN /\ localStorage' = f.storage
          /\ saveFailed' = f.saveFailed
          /\ Commit([files |-> FilesUpdate(newFile, f.files),
                     isLoading |-> f.isLoading,
                     isUploading |-> uploading,
                     selectedFile |-> selected,
                     deps |-> f.deps \/ depsChanged,
                     requests |-> reqs])

\* React runs the scheduled effects when the browser is idle.
FlushPassiveEffects ==
    /\ page = "list"
    /\ pendingEffects # {}
    /\ FlushAndCommit(isUploading, selectedFile, JUndefined, FALSE, requests)
    /\ lastEvent' = NoEvent
    /\ UNCHANGED <<dispatched, fetched, issued, clock, detailVars, other>>

\* handleFileSelect: chosen is event.target.files?.[0], undefined when the
\* dialog was cancelled.  The input is disabled while isUploading.
HandleFileSelect(chosen) ==
    /\ page = "list"
    /\ ~InputDisabled(isUploading)
    /\ IF ~Truthy(chosen) THEN UNCHANGED vars
       ELSE /\ FlushAndCommit(isUploading, chosen, JUndefined, FALSE, requests)
            /\ lastEvent' = NoEvent
            /\ UNCHANGED <<dispatched, fetched, issued, clock, detailVars, other>>

\* A click on the Upload button, which the browser drops while the button
\* is disabled; handleUpload up to its await of fetch (lines 70 to 87).
ClickUpload ==
    /\ page = "list"
    /\ IF UploadDisabled(selectedFile, isUploading) THEN UNCHANGED vars
       ELSE /\ dispatched < MaxUploads
            /\ IF ~Truthy(selectedFile)
               THEN /\ lastEvent' =
                          [NoEvent EXCEPT
                              !.kind = "rejected",
                              !.toast = ToastError(
                                  "Please select a file to upload")]
                    /\ UNCHANGED <<localStorage, page, listVars, requests,
                                   dispatched, fetched, issued, saveFailed>>
               ELSE /\ FlushAndCommit(TRUE, selectedFile, JUndefined, FALSE,
                          Append(requests,
                                 [file |-> selectedFile, orphan |-> FALSE]))
                    /\ dispatched' = dispatched + 1
                    /\ fetched' = fetched + 1
                    /\ UNCHANGED issued
                    /\ lastEvent' = NoEvent
            /\ UNCHANGED <<clock, detailVars, other>>

\* Failure with a retry: the catch block calls fetch again and goes on
\* awaiting
FailureRetrying(i, response, message) ==
    /\ lastEvent' = NoEvent
    /\ fetched' = fetched + 1
    /\ UNCHANGED <<requests, localStorage, page, listVars, saveFailed>>

\* Failure with the file selection cleared as on success
FailureClearingSelection(i, response, message) ==
    /\ lastEvent' =
          [kind |-> "failed", file |-> requests[i].file,
           orphan |-> requests[i].orphan, response |-> response,
           toast |-> ToastError("Error processing file: " \o message),
           record |-> JUndefined]
    /\ UNCHANGED fetched
    /\ IF requests[i].orphan
       THEN /\ requests' = Without(requests, i)
            /\ UNCHANGED <<localStorage, page, listVars, saveFailed>>
       ELSE FlushAndCommit(FALSE, JNull, JUndefined, FALSE, Without(requests, i))

\* Failure without the finally block: isUploading stays true
FailureWithoutFinally(i, response, message) ==
    /\ lastEvent' =
          [kind |-> "failed", file |-> requests[i].file,
           orphan |-> requests[i].orphan, response |-> response,
           toast |-> ToastError("Error processing file: " \o message),
           record |-> JUndefined]
    /\ UNCHANGED fetched
    /\ IF requests[i].orphan
       THEN /\ requests' = Without(requests, i)
            /\ UNCHANGED <<localStorage, page, listVars, saveFailed>>
       ELSE FlushAndCommit(isUploading, selectedFile, JUndefined, FALSE,
                           Without(requests, i))

\* The catch and finally blocks of handleUpload (lines 128 to 135) for
\* request i: the error toast and setIsUploading(false), which reaches the
\* page only if it is still the one that started the upload.
Failure(i, response, message) ==
    /\ lastEvent' =
          [kind |-> "failed", file |-> requests[i].file,
           orphan |-> requests[i].orphan, response |-> response,
           toast |-> ToastError("Error processing file: " \o message),
           record |-> JUndefined]
    /\ UNCHANGED fetched
    /\ IF requests[i].orphan
       THEN /\ requests' = Without(requests, i)
            /\ UNCHANGED <<localStorage, page, listVars, saveFailed>>
       ELSE FlushAndCommit(FALSE, selectedFile, JUndefined, FALSE,
                           Without(requests, i))

\* fetch rejects: the request did not reach the service or got no answer
FetchRejects(i) ==
    /\ clock' = clock + 1
    /\ Failure(i, Rejected, "Failed to fetch")
    /\ UNCHANGED <<dispatched, issued, detailVars, other>>

\* the service answers with a status outside 200..299 (line 89)
ResponseNotOk(i) ==
    /\ clock' = clock + 1
    /\ Failure(i, NotOk, "Failed to process file: Internal Server Error")
    /\ UNCHANGED <<dispatched, issued, detailVars, other>>

\* The service answers with a success status and this body: handleUpload
\* from line 93 on.  Nothing of the page runs between the two awaits, so
\* the response and its body arrive in one step.
ResponseOk(i, body) ==
    LET out == Processed(body, requests[i].file, RandomUUID(issued + 1), clock + 1)
    IN /\ clock' = clock + 1
       /\ IF ~out.ok
          THEN /\ Failure(i, Ok(body), out.message)
               /\ UNCHANGED issued
          ELSE /\ issued' = issued + 1
               /\ UNCHANGED fetched
               /\ lastEvent' =
                     [kind |-> "succeeded", file |-> requests[i].file,
                      orphan |-> requests[i].orphan, response |-> Ok(body),
                      toast |-> ToastSuccess(
                          "File processed successfully: "
                          \o TemplateString(Get(out.record, "filename"))
                          \o " has been converted to markdown"),
                      record |-> out.record]
               /\ IF requests[i].orphan
                  THEN /\ requests' = Without(requests, i)
                       /\ UNCHANGED <<localStorage, page, listVars, saveFailed>>
                  ELSE FlushAndCommit(FALSE, JNull, out.record, TRUE,
                                      Without(requests, i))
       /\ UNCHANGED <<dispatched, detailVars, other>>

---------------------------------------------------------------------------
(* Navigation between the two pages.                                       *)

\* A click on row k of the table: router.push(`/logs/files/${file.id}`).
\* The effects FilesPage has scheduled run before it is unmounted.
RowClick(k) ==
    /\ page = "list"
    /\ RenderContent(files, isLoading) = "table"
    /\ k \in 1..Len(files.items)
    /\ \E setItemThrows \in SetItemOutcomes :
          /\ localStorage' = Flushed(setItemThrows).storage
          /\ saveFailed' = Flushed(setItemThrows).saveFailed
    /\ page' = "detail"
    /\ ListUnmounted
    /\ requests' = Orphaned(requests)
    /\ fileId' = TemplateString(Get(files.items[k], "id"))
    /\ file' = JNull
    /\ detailLoading' = TRUE
    /\ detailEffect' = TRUE
    /\ clickedRow' = files.items[k]
    /\ detailReads' = 0
    /\ lastEvent' = NoEvent
    /\ UNCHANGED <<dispatched, fetched, issued, clock, other>>

\* DetailResolve as an effect without a dependency array: it is scheduled
\* again by every render, the one its own setIsLoading causes included
DetailResolveEveryRender ==
    /\ page = "detail"
    /\ detailEffect
    /\ file' = Resolved(localStorage, fileId, file)
    /\ detailLoading' = FALSE
    /\ detailEffect' = TRUE
    /\ lastEvent' = NoEvent
    /\ detailReads' = detailReads + 1
    /\ UNCHANGED <<localStorage, page, listVars, requests, dispatched, fetched,
                   issued, saveFailed, clock, fileId, clickedRow, other>>

\* the resolve effect of FileDetailPage (lines 27 to 46)
DetailResolve ==
    /\ page = "detail"
    /\ detailEffect
    /\ file' = Resolved(localStorage, fileId, file)
    /\ detailLoading' = FALSE
    /\ page' = IF DetailRender(file', FALSE) = "throw" THEN "error" ELSE page
    /\ detailEffect' = FALSE
    /\ lastEvent' = NoEvent
    /\ detailReads' = detailReads + 1
    /\ UNCHANGED <<localStorage, listVars, requests, dispatched, fetched,
                   issued, saveFailed, clock, fileId, clickedRow, other>>

\* "Back to Files" (line 60) or "Back" (line 83), which are rendered once
\* the resolve effect has run: router.push("/logs/files") mounts a new
\* FilesPage
BackToFiles ==
    /\ page = "detail"
    /\ ~detailLoading
    /\ page' = "list"
    /\ ListMounted
    /\ DetailUnmounted
    /\ lastEvent' = NoEvent
    /\ UNCHANGED <<localStorage, requests, dispatched, fetched, issued,
                   saveFailed, clock, other>>

Next ==
    \/ FlushPassiveEffects
    \/ \E chosen \in {JUndefined} \cup {File(n) : n \in FileNames} :
          HandleFileSelect(chosen)
    \/ ClickUpload
    \/ \E i \in 1..Len(requests) : FetchRejects(i)
    \/ \E i \in 1..Len(requests) : ResponseNotOk(i)
    \/ \E i \in 1..Len(requests), body \in ResponseBodies : ResponseOk(i, body)
    \/ \E k \in 1..(MaxStored + MaxUploads) : RowClick(k)
    \/ DetailResolve
    \/ BackToFiles

Spec == Init /\ [][Next]_vars

---------------------------------------------------------------------------
(* The browser around the two pages: entry by URL, a change of the route   *)
(* parameter, a second tab on the same origin, and the user or another     *)
(* script changing the slot.  DetailSpec and TabsSpec each join a part of  *)
(* it to the pages.                                                        *)

\* records the FilesPage of the other tab builds
MaxOther == 1

\* the ids a URL can name: those of two saved records, one the other tab
\* can issue, and one that no record has
DetailIds == {"stored-1", "stored-empty", "tab2-uuid-1", "missing"}

\* what the tabs of this session share with nothing else
sessionVars == <<page, listVars, requests, dispatched, fetched, issued,
                 saveFailed, clock>>

\* /logs/files/<id> is entered in the address bar: the document is loaded
\* anew, which drops the state of the page shown and its pending requests,
\* and FileDetailPage is mounted with params.id = id.
OpenDetail(id) ==
    /\ page' = "detail"
    /\ ListUnmounted
    /\ requests' = <<>>
    /\ fileId' = id
    /\ file' = JNull
    /\ detailLoading' = TRUE
    /\ detailEffect' = TRUE
    /\ clickedRow' = JUndefined
    /\ detailReads' = 0
    /\ lastEvent' = NoEvent
    /\ UNCHANGED <<localStorage, dispatched, fetched, issued, saveFailed,
                   clock, other>>

\* params.id changes while FileDetailPage stays mounted: its state is kept
\* and the resolve effect, whose dependency is [fileId] (line 46), is
\* scheduled again.
ParamsChange(id) ==
    /\ page = "detail"
    /\ ~detailEffect
    /\ id # fileId
    /\ fileId' = id
    /\ detailEffect' = TRUE
    /\ detailReads' = 0
    /\ clickedRow' = JUndefined
    /\ lastEvent' = NoEvent
    /\ UNCHANGED <<localStorage, sessionVars, file, detailLoading, other>>

\* the record an upload of the other tab builds
OtherRecord(n, now) ==
    ProcessedFile(JStr("tab2-uuid-" \o ToString(n)), JStr("report.md"),
                  JStr("# Report"), IsoString(now))

\* the other tab opens the list page: its load effect runs, and its save
\* effect is scheduled unless the render throws
OtherLoad ==
    /\ other.files = JUndefined
    /\ LET loaded == LoadedFiles(localStorage, NoFiles)
       IN /\ RenderContent(loaded, FALSE) # "throw"
          /\ other' = [other EXCEPT !.files = loaded, !.pending = TRUE]
    /\ lastEvent' = NoEvent
    /\ UNCHANGED <<localStorage, sessionVars, detailVars>>

\* the save effect of the other tab
OtherPersist ==
    /\ other.pending
    /\ \E setItemThrows \in BOOLEAN :
          localStorage' = Saved(localStorage, other.files, FALSE, setItemThrows)
    /\ other' = [other EXCEPT !.pending = FALSE]
    /\ lastEvent' = NoEvent
    /\ UNCHANGED <<sessionVars, detailVars>>

\* an upload of the other tab succeeds: setFiles(prev => [newFile, ...prev])
OtherInsert ==
    /\ other.files # JUndefined
    /\ ~other.pending
    /\ other.issued < MaxOther
    /\ other' = [files |-> Prepend(OtherRecord(other.issued + 1, clock),
                                   other.files),
                 pending |-> TRUE,
                 issued |-> other.issued + 1]
    /\ lastEvent' = NoEvent
    /\ UNCHANGED <<localStorage, sessionVars, detailVars>>

\* the user clears the site data: removeItem
StorageCleared ==
    /\ localStorage # Absent
    /\ localStorage' = Absent
    /\ lastEvent' = NoEvent
    /\ UNCHANGED <<sessionVars, detailVars, other>>

\* what a script of the origin other than the two pages, or the user in
\* the developer tools, writes to the slot: text that is not JSON, and an
\* array with a record of empty content
ForeignTexts == {<<Tok("junk")>>, Stringify(JArr(<<EmptyRecord>>))}

StorageOverwritten(text) ==
    /\ localStorage # Item(text)
    /\ localStorage' = Item(text)
    /\ lastEvent' = NoEvent
    /\ UNCHANGED <<sessionVars, detailVars, other>>

\* The detail page in its browser: this session opens pages and navigates,
\* and the records of the slot are those of earlier sessions and of the
\* other tab.
DetailNext ==
    \/ FlushPassiveEffects
    \/ \E k \in 1..(MaxStored + MaxOther) : RowClick(k)
    \/ DetailResolve
    \/ BackToFiles
    \/ \E id \in DetailIds : OpenDetail(id)
    \/ \E id \in DetailIds : ParamsChange(id)
    \/ OtherLoad
    \/ OtherPersist
    \/ OtherInsert
    \/ StorageCleared
    \/ \E text \in ForeignTexts : StorageOverwritten(text)

DetailSpec == Init /\ [][DetailNext]_vars

\* a body the service answers an upload with when it accepts it
AcceptedBody ==
    Stringify(JObj(<<JProp("filename", JStr("report.md")),
                     JProp("content", JStr("# Report"))>>))

\* Two list pages on one slot: this session and the other tab upload, and
\* every upload is accepted.
TabsNext ==
    \/ FlushPassiveEffects
    \/ HandleFileSelect(File("report.pdf"))
    \/ ClickUpload
    \/ \E i \in 1..Len(requests) : ResponseOk(i, AcceptedBody)
    \/ OtherLoad
    \/ OtherPersist
    \/ OtherInsert

TabsSpec == Init /\ [][TabsNext]_vars

---------------------------------------------------------------------------
(* Vocabulary of the properties.                                           *)

\* the list page is mounted and its load effect has run
ListLoaded == page = "list" /\ ~isLoading

\* r was built by handleUpload in this session
Uploaded(r) == \E n \in 1..issued : Get(r, "id") = JStr(RandomUUID(n))

\* the call of randomUUID that named r
IssueNumber(r) == CHOOSE n \in 1..issued : Get(r, "id") = JStr(RandomUUID(n))

\* the last step ran handleUpload to its end for an upload of the page that
\* is mounted
OwnUploadEnded ==
    lastEvent.kind \in {"failed", "succeeded"} /\ ~lastEvent.orphan

NonEmptyString(v) == v.t = "string" /\ v.s # ""

\* the ids of the records of the array v are pairwise distinct
DistinctIds(v) ==
    v.t = "array" =>
        \A i, j \in 1..Len(v.items) :
            i # j => Get(v.items[i], "id") # Get(v.items[j], "id")

\* the slot holds the JSON text of an array
HoldsArray(storage) ==
    /\ storage.present
    /\ JsonParse(storage.text).ok
    /\ JsonParse(storage.text).v.t = "array"

---------------------------------------------------------------------------
(* The properties.                                                         *)

\* C1 (load before save): a step changes the durable slot only when the list
\* page is mounted and its load has resolved (isLoading is false), whatever
\* select, upload and response events came before.
C1_LoadBeforeSave ==
    [][localStorage' # localStorage => (page = "list" /\ ~isLoading)]_vars

\* a record was uploaded after the load and the slot holds it
C1_Witness ==
    /\ ListLoaded
    /\ files.t = "array" /\ Len(files.items) > 0
    /\ Uploaded(files.items[1])
    /\ localStorage = Item(Stringify(files))

\* C2 (serialized uploads), as claimed: at most one conversion request is in
\* flight in every reachable state.
C2_Claim == Len(requests) <= 1

\* C3 (prepend-only registry): while the list page stays mounted with its
\* load resolved, a step leaves files unchanged or puts the record the
\* upload built in front of exactly the previous sequence; the uploaded
\* records come first, most recent first, ahead of the loaded ones.
C3_Step ==
    (ListLoaded /\ page' = "list") =>
        \/ files' = files
        \/ /\ lastEvent'.kind = "succeeded"
           /\ files' = JArr(<<lastEvent'.record>> \o files.items)

C3_Order ==
    (ListLoaded /\ files.t = "array") =>
        \A i, j \in 1..Len(files.items) :
            i < j =>
                /\ Uploaded(files.items[j]) => Uploaded(files.items[i])
                /\ Uploaded(files.items[j]) =>
                       IssueNumber(files.items[i]) > IssueNumber(files.items[j])

C3_PrependOnly == []C3_Order /\ [][C3_Step]_vars

\* two uploads were inserted ahead of a loaded record
C3_Witness ==
    /\ ListLoaded
    /\ files.t = "array" /\ Len(files.items) >= 3
    /\ Uploaded(files.items[1]) /\ Uploaded(files.items[2])
    /\ ~Uploaded(files.items[3])

\* C4 (id uniqueness): the ids of the records in files, and of those in the
\* durable slot, are pairwise distinct.
C4_UniqueIds ==
    /\ DistinctIds(files)
    /\ DistinctIds(JsonParse(localStorage.text).v)

\* the slot holds two uploaded records and a loaded one
C4_Witness ==
    /\ HoldsArray(localStorage)
    /\ Len(JsonParse(localStorage.text).v.items) >= 3
    /\ issued >= 2

\* C5 (conversion content requirement): a success-status response whose
\* content is "", null or missing ends in the catch block with an error
\* toast and no record, and changes files in no way; every record an upload
\* built has a non-empty string for content.
C5_State ==
    /\ (/\ lastEvent.response.status = "ok"
        /\ ~Truthy(Get(JsonParse(lastEvent.response.body).v, "content")))
       => /\ lastEvent.kind = "failed"
          /\ lastEvent.toast.kind = "error"
          /\ lastEvent.record = JUndefined
    /\ lastEvent.kind = "succeeded" =>
          NonEmptyString(Get(lastEvent.record, "content"))
    /\ files.t = "array" =>
          \A i \in 1..Len(files.items) :
              Uploaded(files.items[i]) =>
                  NonEmptyString(Get(files.items[i], "content"))

C5_Step == lastEvent'.kind = "failed" => files' = files

C5_ContentRequired == []C5_State /\ [][C5_Step]_vars

\* a success-status response with content "" was refused
C5_Witness ==
    /\ lastEvent.kind = "failed"
    /\ lastEvent.response.status = "ok"
    /\ Get(JsonParse(lastEvent.response.body).v, "content") = JStr("")

\* C6 (failure leaves state unchanged): the step in which an upload fails
\* shows an error toast with its cause, changes none of files, the durable
\* slot and the file selection, and leaves the page mounted; and between
\* the dispatch of an upload and its end none of the three changes.
C6_Step ==
    /\ lastEvent'.kind = "failed" =>
          /\ lastEvent'.toast.kind = "error"
          /\ lastEvent'.toast.message # "Error processing file: "
          /\ UNCHANGED <<files, localStorage, selectedFile, page>>
          /\ ~lastEvent'.orphan => ~isUploading'
    /\ (page = "list" /\ isUploading /\ page' = "list" /\ isUploading') =>
          UNCHANGED <<files, localStorage, selectedFile>>

C6_FailureUnchanged == [][C6_Step]_vars

\* an upload of the mounted page failed with records listed and a file
\* selected
C6_Witness ==
    /\ lastEvent.kind = "failed" /\ ~lastEvent.orphan
    /\ page = "list"
    /\ selectedFile = lastEvent.file
    /\ files.t = "array" /\ Len(files.items) >= 2

\* C7 (fail-soft load), as claimed: when the slot is absent, empty, not JSON
\* or JSON that is no array, the step in which the load effect runs leaves
\* the list page mounted, holding and rendering an empty registry.
C7_Claim ==
    [][("load" \in pendingEffects /\ ~HoldsArray(localStorage)) =>
          /\ page' = "list"
          /\ ~isLoading'
          /\ files' = NoFiles
          /\ RenderContent(files', isLoading') = "empty"]_vars

\* C8 (consistency of the two views).  After an upload of the mounted page
\* succeeded, its record is files[0], with the content of the response and
\* with the filename of the response when it has one; the detail page opened
\* from the row of an uploaded record shows that record.
C8_IndexZero ==
    (lastEvent.kind = "succeeded" /\ ~lastEvent.orphan) =>
        LET result == JsonParse(lastEvent.response.body).v
        IN /\ page = "list"
           /\ files.t = "array" /\ Len(files.items) > 0
           /\ files.items[1] = lastEvent.record
           /\ Get(files.items[1], "content") = Get(result, "content")
           /\ Truthy(Get(result, "filename")) =>
                 Get(files.items[1], "filename") = Get(result, "filename")

C8_DetailShown ==
    /\ Get(file, "id") = JStr(fileId)
    /\ Get(file, "filename") = Get(clickedRow, "filename")
    /\ Get(file, "content") = Get(clickedRow, "content")

C9_State ==
    (ListLoaded /\ pendingEffects = {} /\ ~saveFailed) =>
        localStorage = Item(Stringify(files))

C9_Step ==
    /\ (lastEvent'.kind = "succeeded" /\ ~lastEvent'.orphan /\ page' = "list")
          => /\ "save" \in pendingEffects'
             /\ files' # files
    /\ (/\ ListLoaded /\ "save" \in pendingEffects
        /\ (dispatched' # dispatched \/ page' = "detail"))
          => \/ saveFailed'
             \/ localStorage' = Item(Stringify(files))

C10_Claim ==
    (OwnUploadEnded /\ pendingEffects = {} /\ Len(requests) = 0) =>
        /\ page = "list"
        /\ ~isUploading
        /\ ~Truthy(selectedFile)

\* as amended: no upload in flight; after a success no file is selected
\* (Idle), after a failure the file of the upload still is (FileSelected).
C10_UploadingEnds ==
    OwnUploadEnded =>
        /\ page = "list"
        /\ ~isUploading
        /\ lastEvent.kind = "succeeded" => selectedFile = JNull
        /\ lastEvent.kind = "failed" =>
              (selectedFile = lastEvent.file /\ Truthy(selectedFile))

\* fetch rejected for an upload of the mounted page
C10_Witness ==
    /\ OwnUploadEnded
    /\ lastEvent.kind = "failed"
    /\ lastEvent.response.status = "rejected"
    /\ ~isUploading /\ Truthy(selectedFile)

\* C14 (filename fallback): the record a successful upload builds carries
\* the filename of the response when the response has one (a truthy
\* result.filename), otherwise the name of the file that was selected when
\* the upload was dispatched; its content is the content of the response.
C14_FilenameFallback ==
    lastEvent.kind = "succeeded" =>
        LET result == JsonParse(lastEvent.response.body).v
            record == lastEvent.record
        IN /\ Get(record, "content") = Get(result, "content")
           /\ Truthy(Get(result, "filename")) =>
                 Get(record, "filename") = Get(result, "filename")
           /\ ~Truthy(Get(result, "filename")) =>
                 /\ Get(record, "filename") = Get(lastEvent.file, "name")
                 /\ Get(lastEvent.file, "name") \in {JStr(n) : n \in FileNames}

\* the two cases have happened in one session: the first record took the
\* name of the selected file, the second the filename of the response
C14_Witness ==
    /\ lastEvent.kind = "succeeded"
    /\ Truthy(Get(JsonParse(lastEvent.response.body).v, "filename"))
    /\ Get(lastEvent.record, "filename") # Get(lastEvent.file, "name")
    /\ files.t = "array" /\ Len(files.items) >= 2
    /\ Get(files.items[2], "filename") \in {JStr(n) : n \in FileNames}

\* an upload of the FilesPage that is mounted awaits its response
OwnRequestInFlight == \E i \in 1..Len(requests) : ~requests[i].orphan

\* C17 (one request per upload, no retry): fetch was called as many times as
\* uploads were dispatched, failed uploads included, and isUploading is true
\* exactly while a request of the mounted list page is in flight.
C17_OneRequestPerUpload ==
    /\ fetched = dispatched
    /\ Len(requests) <= fetched
    /\ page = "list" => (isUploading <=> OwnRequestInFlight)
    /\ page # "list" => (~isUploading /\ ~OwnRequestInFlight)

\* an upload failed, and the next one is in flight
C17_Witness ==
    /\ dispatched = 2 /\ fetched = 2
    /\ issued = 0
    /\ Len(requests) = 1
    /\ page = "list" /\ isUploading /\ OwnRequestInFlight

\* C16 (a dispatched upload runs to completion), as claimed: when the service
\* has answered an upload with an accepted response, the record built from
\* it is in the registry, also when the user went from the list page to a
\* detail page while the request was in flight.
C16_Claim ==
    lastEvent.kind = "succeeded" =>
        /\ files.t = "array"
        /\ \E i \in 1..Len(files.items) : files.items[i] = lastEvent.record

\* the slot holds the JSON text of an array of objects
HoldsRecords(storage) ==
    /\ storage.present
    /\ LET parsed == JsonParse(storage.text)
       IN /\ parsed.ok
          /\ parsed.v.t = "array"
          /\ \A i \in 1..Len(parsed.v.items) : parsed.v.items[i].t = "object"

\* C18 (load then first persist is a round trip): when the slot holds a
\* well-formed array of records, the step that runs the load effect makes
\* files the parsed array, schedules the save effect and leaves the slot as
\* it is; and as long as this session has built no record, no step changes
\* the slot, the persist after the load included.
C18_Step ==
    /\ (/\ page = "list"
        /\ "load" \in pendingEffects /\ "load" \notin pendingEffects'
        /\ HoldsRecords(localStorage))
          => /\ page' = "list"
             /\ files' = JsonParse(localStorage.text).v
             /\ "save" \in pendingEffects'
             /\ localStorage' = localStorage
    /\ (issued' = 0 /\ localStorage' # localStorage)
          => ~HoldsRecords(localStorage)

C18_RoundTrip == [][C18_Step]_vars

\* the list page was opened on a slot with records, and the persist that
\* follows the load has run and succeeded
C18_Witness ==
    /\ ListLoaded /\ pendingEffects = {} /\ ~saveFailed
    /\ issued = 0
    /\ files.t = "array" /\ Len(files.items) >= 1
    /\ localStorage = Item(Stringify(files))

---------------------------------------------------------------------------
(* The properties of the detail page and of the shared slot.               *)

\* the slot holds an array with a record of this id
Matches(storage, id) ==
    /\ HoldsArray(storage)
    /\ \E i \in 1..Len(JsonParse(storage.text).v.items) :
          LET r == JsonParse(storage.text).v.items[i]
          IN r.t = "object" /\ Get(r, "id") = JStr(id)

\* the first record of this id in the slot has a falsy content
MatchesEmpty(storage, id) ==
    /\ HoldsRecords(storage)
    /\ LET items == JsonParse(storage.text).v.items
       IN \E i \in 1..Len(items) :
             /\ Get(items[i], "id") = JStr(id)
             /\ ~Truthy(Get(items[i], "content"))
             /\ \A j \in 1..(i - 1) : Get(items[j], "id") # JStr(id)

\* this step ran the resolve effect of FileDetailPage
ResolveStep == page = "detail" /\ detailReads' = detailReads + 1

\* FileDetailPage shows a record
ShowsRecord ==
    /\ page = "detail"
    /\ DetailRender(file, detailLoading) \in {"record", "recordNoContent"}

\* C11 (detail not-found), as claimed: when the resolve effect runs and the
\* slot holds no record of the id of the view (the slot absent, not JSON or
\* no array included), the view then shows the not-found presentation, and
\* nothing was thrown out of it.
C11_Claim ==
    [][(ResolveStep /\ ~Matches(localStorage, fileId)) =>
          /\ page' = "detail"
          /\ DetailRender(file', detailLoading') = "notFound"]_vars

\* C12 (accepted staleness): FileDetailPage reads the slot once for each id
\* it is given, and once it has, no step in which it stays mounted with
\* that id changes what it shows, whatever is written to the slot.
C12_State ==
    page = "detail" =>
        /\ detailReads <= 1
        /\ ~detailEffect => detailReads = 1

C12_Step ==
    (/\ page = "detail" /\ ~detailEffect
     /\ page' = "detail" /\ fileId' = fileId /\ detailReads' >= detailReads)
        => /\ file' = file
           /\ detailLoading' = detailLoading
           /\ detailReads' = detailReads

C12_AcceptedStaleness == []C12_State /\ [][C12_Step]_vars

\* the view shows the record of its id although the slot has lost it
C12_Witness ==
    /\ ShowsRecord /\ ~detailEffect
    /\ Get(file, "id") = JStr(fileId)
    /\ ~Matches(localStorage, fileId)

\* C13 (empty content is not absence): when the resolve effect runs and the
\* record of the id in the slot has an empty content, the view shows that
\* record with the no-content notice, not the not-found presentation; the
\* not-found presentation is shown only when file is null.
C13_State ==
    (page = "detail" /\ DetailRender(file, detailLoading) = "notFound")
        => file = JNull

C13_Step ==
    (ResolveStep /\ MatchesEmpty(localStorage, fileId)) =>
        /\ page' = "detail"
        /\ Get(file', "id") = JStr(fileId)
        /\ DetailRender(file', detailLoading') = "recordNoContent"

C13_EmptyIsNotAbsent == []C13_State /\ [][C13_Step]_vars

\* the view shows the record whose content is empty
C13_Witness ==
    /\ page = "detail" /\ ~detailLoading /\ ~detailEffect
    /\ file = EmptyRecord
    /\ DetailRender(file, detailLoading) = "recordNoContent"

\* the records of the array the slot holds (none when it holds no array)
StoredItems ==
    IF HoldsArray(localStorage)
    THEN {JsonParse(localStorage.text).v.items[i] :
             i \in 1..Len(JsonParse(localStorage.text).v.items)}
    ELSE {}

\* C15 (cross-session lost update): a write of either list page replaces
\* the slot by the sequence of the page that writes, whatever the slot
\* held, and shows no error; so a record one page has persisted is gone
\* from the slot after the persist of the other (the state C15_Witness).
C15_Step ==
    localStorage' # localStorage =>
        /\ \/ localStorage' = Item(Stringify(files))
           \/ localStorage' = Item(Stringify(other.files))
        /\ lastEvent'.toast.kind # "error"

C15_Overwrite == [][C15_Step]_vars

\* this session persisted its record, the other tab persisted after it,
\* and the slot holds the record of the other tab without this session's
C15_Witness ==
    /\ ListLoaded /\ pendingEffects = {} /\ ~saveFailed
    /\ files.t = "array" /\ Len(files.items) > 0
    /\ Uploaded(files.items[1])
    /\ files.items[1] \notin StoredItems
    /\ ~other.pending
    /\ other.files # JUndefined /\ Len(other.files.items) > 0
    /\ other.files.items[1] \in StoredItems
    /\ lastEvent.toast.kind # "error"

\* C19 (displayed record matches the requested id), as claimed: whenever
\* FileDetailPage has run its resolve effect for the id it has and shows a
\* record, the id of that record is the id of the view.
C19_Claim ==
    (ShowsRecord /\ ~detailEffect) => Get(file, "id") = JStr(fileId)

=============================================================================
